---- MODULE Spec2Model ----
(***************************************************************************)
(* State machine of the voice-synthesis session of the text-to-voice page: *)
(* HomePage (src/src/app/page.tsx) with its generateVoice flow, the        *)
(* browser speech engine it drives, the object-URL store of the host, the  *)
(* VoiceHistory panel (src/src/components/VoiceHistory.tsx), and the       *)
(* AudioPlayer and VoiceSelector components (src/unnamed/part_002).        *)
(*                                                                         *)
(* React state is modelled as committed at the end of each handler or      *)
(* callback: every handler is run from a discrete event or a promise       *)
(* continuation, and React flushes the updates it queued before the next   *)
(* event is dispatched.  An async function is cut at its awaits: one       *)
(* action per synchronous stretch.                                         *)
(***************************************************************************)
EXTENDS Integers, Sequences, FiniteSets, TLC

VARIABLES
  text,               \* page.tsx:35   useState("")
  isGenerating,       \* page.tsx:36   useState(false)
  generationProgress, \* page.tsx:37   useState(0)
  currentAudio,       \* page.tsx:38   useState(null): <<>> or <<artifact>>
  audioHistory,       \* page.tsx:39   useState([])
  voiceSettings,      \* page.tsx:40   useState({voice: "rachel", ...})
  speechSupported,    \* page.tsx:53   'speechSynthesis' in window
  progressInterval,   \* page.tsx:156  TRUE while the interval timer is armed
  pending,            \* the generateVoice calls suspended at an await
  now,                \* the host clock read by Date.now(), page.tsx:178
  urlCount,           \* object URLs handed out by URL.createObjectURL
  revoked,            \* object URLs released by URL.revokeObjectURL
  alerts,             \* alert() dialogs shown, page.tsx:192
  produced,           \* history variable: every GeneratedAudio built, in order
  lastOp,             \* the handler or callback that ran last, and its outcome
  voices,             \* page.tsx:62  what speechSynthesis.getVoices() returns
  previewUtterance,   \* part_002:621 <<>> or <<the utterance previewVoice spoke>>
  isPlaying,          \* part_002:265 useState(false)
  currentTime,        \* part_002:266 useState(0)
  volume,             \* part_002:267 useState(0.8), in hundredths
  playbackRate,       \* part_002:268 useState(1), in hundredths
  isLoading,          \* part_002:269 useState(true)
  audioElement,       \* part_002:386 the <audio> element behind audioRef
  mounted             \* FALSE once an error thrown in an effect has made
                      \* React unmount the page

\* the state of AudioPlayer and of its audio element
playerVars == <<isPlaying, currentTime, volume, playbackRate, isLoading,
                audioElement>>

\* the speech engine's voice list and the preview it was asked for
engineVars == <<voices, previewUtterance>>

vars == <<text, isGenerating, generationProgress, currentAudio, audioHistory,
          voiceSettings, speechSupported, progressInterval, pending, now,
          urlCount, revoked, alerts, produced, lastOp, voices,
          previewUtterance, isPlaying, currentTime, volume, playbackRate,
          isLoading, audioElement, mounted>>

(***************************************************************************)
(* Bounds of the model.                                                    *)
(***************************************************************************)
MaxGenerations == 3          \* GeneratedAudio objects built under Spec
MaxHistoryGenerations == 12  \* GeneratedAudio objects built under HistorySpec
MaxRevoked == 1              \* distinct object URLs revoked in one run
MaxAlerts == 1               \* alert dialogs shown in one run
MaxVoices == 2               \* voices in the list getVoices() returns
MaxVoiceGenerations == 1     \* GeneratedAudio objects built under VoiceSpec
MaxClampGenerations == 1     \* GeneratedAudio objects built under ClampSpec
MaxPlayerGenerations == 2    \* GeneratedAudio objects built under PlayerSpec
MaxControlGenerations == 1   \* GeneratedAudio objects built under ControlsSpec
MaxEvents == 2               \* events the audio element has queued
MaxSettingsGenerations == 2  \* GeneratedAudio objects built under SettingsSpec
MaxSnapshotGenerations == 2  \* GeneratedAudio objects built under SnapshotSpec

(***************************************************************************)
(* Program constants.                                                      *)
(***************************************************************************)
HistoryKeep == 9        \* prev.slice(0, 9), page.tsx:188
TextPreviewLen == 100   \* text.substring(0, 100), page.tsx:179
ProgressDone == 100     \* setGenerationProgress(100), page.tsx:165

Min(a, b) == IF a < b THEN a ELSE b

(***************************************************************************)
(* Texts are sequences of one-character strings.                           *)
(***************************************************************************)
EmptyText == <<>>
BlankText == <<" ", " ">>
HelloText == <<" ", "H", "i">>
LongText  == [i \in 1..(TextPreviewLen + 1) |-> "x"]
Texts == {EmptyText, BlankText, HelloText, LongText}

IsSpace(c) == c \in {" ", "\t", "\n"}

RECURSIVE TrimStart(_)
TrimStart(s) ==
  IF s # <<>> /\ IsSpace(Head(s)) THEN TrimStart(Tail(s)) ELSE s

RECURSIVE TrimEnd(_)
TrimEnd(s) ==
  IF s # <<>> /\ IsSpace(s[Len(s)]) THEN TrimEnd(SubSeq(s, 1, Len(s) - 1)) ELSE s

\* String.prototype.trim
Trim(s) == TrimEnd(TrimStart(s))

\* text.substring(0, 100) + (text.length > 100 ? "..." : "")
PreviewText(s) ==
  SubSeq(s, 1, Min(Len(s), TextPreviewLen))
    \o (IF Len(s) > TextPreviewLen THEN <<".", ".", ".">> ELSE <<>>)

\* Array.prototype.slice(0, n)
SliceFront(s, n) == SubSeq(s, 1, Min(n, Len(s)))

RemoveAt(s, i) == SubSeq(s, 1, i - 1) \o SubSeq(s, i + 1, Len(s))

DefaultSettings ==
  [voice |-> "rachel", speed |-> 100, pitch |-> 100, stability |-> 75, clarity |-> 75]

\* audio.duration as the audio element reports it with loadedmetadata
Durations == {2}

Op(name, out) == [op |-> name, out |-> out]

(***************************************************************************)
(* Voice resolution.  Names of voices and the fragments they are matched   *)
(* against are sequences of one-character strings.                         *)
(***************************************************************************)
UpperCaseLetters ==
  <<"A", "B", "C", "D", "E", "F", "G", "H", "I", "J", "K", "L", "M",
    "N", "O", "P", "Q", "R", "S", "T", "U", "V", "W", "X", "Y", "Z">>

LowerCaseLetters ==
  <<"a", "b", "c", "d", "e", "f", "g", "h", "i", "j", "k", "l", "m",
    "n", "o", "p", "q", "r", "s", "t", "u", "v", "w", "x", "y", "z">>

\* the lower-case letter of every upper-case letter
LowerCaseOf ==
  [c \in {UpperCaseLetters[k] : k \in 1..Len(UpperCaseLetters)} |->
     LowerCaseLetters[CHOOSE k \in 1..Len(UpperCaseLetters) :
                        UpperCaseLetters[k] = c]]

\* String.prototype.toLowerCase
ToLowerCase(s) ==
  [i \in 1..Len(s) |->
     IF s[i] \in DOMAIN LowerCaseOf THEN LowerCaseOf[s[i]] ELSE s[i]]

\* String.prototype.includes
Includes(s, sub) ==
  \E i \in 1..(Len(s) - Len(sub) + 1) : SubSeq(s, i, i + Len(sub) - 1) = sub

\* Array.prototype.find, given the indices of the elements that pass the
\* test: the first of them, 0 for undefined
Find(passing) ==
  IF passing = {} THEN 0
  ELSE CHOOSE i \in passing : \A j \in passing : i <= j

Female == <<"f", "e", "m", "a", "l", "e">>
Male   == <<"m", "a", "l", "e">>
Woman  == <<"w", "o", "m", "a", "n">>
Man    == <<"m", "a", "n">>

\* the names the engine's voices are drawn from
GoogleFemale  ==
  <<"G", "o", "o", "g", "l", "e", " ", "U", "K", " ", "E", "n", "g", "l", "i", "s", "h", " ", "F", "e", "m", "a", "l", "e">>
GoogleMale    ==
  <<"G", "o", "o", "g", "l", "e", " ", "U", "K", " ", "E", "n", "g", "l", "i", "s", "h", " ", "M", "a", "l", "e">>
MicrosoftMark == <<"M", "i", "c", "r", "o", "s", "o", "f", "t", " ", "M", "a", "r", "k">>
WomanVoice    == <<"W", "o", "m", "a", "n">>
ManVoice      == <<"M", "a", "n">>
Alice         == <<"A", "l", "i", "c", "e">>
VoiceNames == {GoogleFemale, GoogleMale, MicrosoftMark, WomanVoice, ManVoice, Alice}

\* the lists getVoices() can return: at most n voices, no voice twice
VoiceLists(n) ==
  UNION {{vs \in [1..k -> VoiceNames] :
            \A i, j \in 1..k : vs[i] = vs[j] => i = j} : k \in 0..n}

\* the ids of the catalog (part_002:535-599), and one id that is not in it
CatalogIds ==
  {"rachel", "domi", "bella", "antoni", "elli", "josh", "arnold", "adam", "sam"}

UnknownId == "zoe"
VoiceIds == CatalogIds \cup {UnknownId}

\* voiceMap, page.tsx:65-75
VoiceMap ==
  [rachel |->
     << <<"f", "e", "m", "a", "l", "e">>,
        <<"z", "i", "r", "a">>,
        <<"k", "a", "r", "e", "n">>,
        <<"s", "a", "m", "a", "n", "t", "h", "a">> >>,
   domi |->
     << <<"f", "e", "m", "a", "l", "e">>,
        <<"h", "a", "z", "e", "l">>,
        <<"v", "i", "c", "t", "o", "r", "i", "a">>,
        <<"a", "l", "l", "i", "s", "o", "n">> >>,
   bella |->
     << <<"f", "e", "m", "a", "l", "e">>,
        <<"e", "v", "a">>,
        <<"f", "i", "o", "n", "a">>,
        <<"s", "u", "s", "a", "n">> >>,
   antoni |->
     << <<"m", "a", "l", "e">>,
        <<"d", "a", "v", "i", "d">>,
        <<"d", "a", "n", "i", "e", "l">>,
        <<"a", "l", "e", "x">> >>,
   elli |->
     << <<"f", "e", "m", "a", "l", "e">>,
        <<"m", "a", "r", "k">>,
        <<"k", "a", "t", "e">>,
        <<"v", "e", "e", "n", "a">> >>,
   josh |->
     << <<"m", "a", "l", "e">>,
        <<"t", "o", "m">>,
        <<"f", "r", "e", "d">>,
        <<"j", "o", "s", "h">> >>,
   arnold |->
     << <<"m", "a", "l", "e">>,
        <<"p", "a", "u", "l">>,
        <<"o", "l", "i", "v", "e", "r">>,
        <<"r", "a", "l", "p", "h">> >>,
   adam |->
     << <<"m", "a", "l", "e">>,
        <<"m", "a", "r", "k">>,
        <<"a", "a", "r", "o", "n">>,
        <<"b", "r", "u", "c", "e">> >>,
   sam |->
     << <<"m", "a", "l", "e">>,
        <<"d", "a", "v", "i", "d">>,
        <<"s", "a", "m">>,
        <<"j", "u", "n", "i", "o", "r">> >>]

\* voiceMap[settings.voice] || ['female']          page.tsx:78
PreferredVoices(voiceId) ==
  IF voiceId \in DOMAIN VoiceMap THEN VoiceMap[voiceId] ELSE << Female >>

\* preferredVoices.some(pref => voice.name.toLowerCase().includes(pref.toLowerCase()))
MatchesPreferred(name, preferred) ==
  \E k \in 1..Len(preferred) :
    Includes(ToLowerCase(name), ToLowerCase(preferred[k]))

\* ['rachel', 'domi', 'bella', 'elli'].includes(settings.voice)   page.tsx:87
IsFemale(voiceId) == voiceId \in {"rachel", "domi", "bella", "elli"}

\* the test of the second find, page.tsx:88-92
MatchesGender(name, isFemale) ==
  IF isFemale
  THEN Includes(ToLowerCase(name), Female) \/ Includes(ToLowerCase(name), Woman)
  ELSE Includes(ToLowerCase(name), Male) \/ Includes(ToLowerCase(name), Man)

\* the first find, page.tsx:79-83
FindPreferred(voiceId, list) ==
  Find({i \in 1..Len(list) :
          MatchesPreferred(list[i], PreferredVoices(voiceId))})

\* the second find, page.tsx:88-92
FindGender(voiceId, list) ==
  Find({i \in 1..Len(list) : MatchesGender(list[i], IsFemale(voiceId))})

\* Variant of the last fallback: no voice is taken.
FirstVoiceNone(list) == 0

\* if (!selectedVoice && voices.length > 0) selectedVoice = voices[0]   page.tsx:96-98
FirstVoice(list) == IF Len(list) > 0 THEN 1 ELSE 0

\* selectedVoice of generateBrowserVoice, page.tsx:78-98: the index in the
\* list, 0 for undefined
SelectedVoice(voiceId, list) ==
  IF FindPreferred(voiceId, list) # 0 THEN FindPreferred(voiceId, list)
  ELSE IF FindGender(voiceId, list) # 0 THEN FindGender(voiceId, list)
  ELSE FirstVoice(list)

\* utterance.voice after lines 100-102: <<>> when it is left unset and the
\* engine speaks with its default voice
UtteranceVoice(found, list) == IF found # 0 THEN <<list[found]>> ELSE <<>>

\* voiceMap of previewVoice, part_002:627-637
PreviewVoiceMap ==
  [rachel |->
     << <<"M", "i", "c", "r", "o", "s", "o", "f", "t", " ", "Z", "i", "r", "a">>,
        <<"G", "o", "o", "g", "l", "e", " ", "U", "K", " ", "E", "n", "g", "l", "i", "s", "h", " ", "F", "e", "m", "a", "l", "e">>,
        <<"K", "a", "r", "e", "n">>,
        <<"S", "a", "m", "a", "n", "t", "h", "a">>,
        <<"f", "e", "m", "a", "l", "e">> >>,
   domi |->
     << <<"M", "i", "c", "r", "o", "s", "o", "f", "t", " ", "H", "a", "z", "e", "l">>,
        <<"G", "o", "o", "g", "l", "e", " ", "U", "S", " ", "E", "n", "g", "l", "i", "s", "h", " ", "F", "e", "m", "a", "l", "e">>,
        <<"V", "i", "c", "t", "o", "r", "i", "a">>,
        <<"A", "l", "l", "i", "s", "o", "n">>,
        <<"f", "e", "m", "a", "l", "e">> >>,
   bella |->
     << <<"M", "i", "c", "r", "o", "s", "o", "f", "t", " ", "E", "v", "a">>,
        <<"G", "o", "o", "g", "l", "e", " ", "U", "K", " ", "E", "n", "g", "l", "i", "s", "h", " ", "F", "e", "m", "a", "l", "e">>,
        <<"F", "i", "o", "n", "a">>,
        <<"S", "u", "s", "a", "n">>,
        <<"f", "e", "m", "a", "l", "e">> >>,
   antoni |->
     << <<"M", "i", "c", "r", "o", "s", "o", "f", "t", " ", "D", "a", "v", "i", "d">>,
        <<"G", "o", "o", "g", "l", "e", " ", "U", "S", " ", "E", "n", "g", "l", "i", "s", "h", " ", "M", "a", "l", "e">>,
        <<"D", "a", "n", "i", "e", "l">>,
        <<"A", "l", "e", "x">>,
        <<"m", "a", "l", "e">> >>,
   elli |->
     << <<"M", "i", "c", "r", "o", "s", "o", "f", "t", " ", "M", "a", "r", "k">>,
        <<"G", "o", "o", "g", "l", "e", " ", "U", "K", " ", "E", "n", "g", "l", "i", "s", "h", " ", "F", "e", "m", "a", "l", "e">>,
        <<"K", "a", "t", "e">>,
        <<"V", "e", "e", "n", "a">>,
        <<"f", "e", "m", "a", "l", "e">> >>,
   josh |->
     << <<"M", "i", "c", "r", "o", "s", "o", "f", "t", " ", "Z", "i", "r", "a">>,
        <<"G", "o", "o", "g", "l", "e", " ", "U", "S", " ", "E", "n", "g", "l", "i", "s", "h", " ", "M", "a", "l", "e">>,
        <<"T", "o", "m">>,
        <<"F", "r", "e", "d">>,
        <<"m", "a", "l", "e">> >>,
   arnold |->
     << <<"M", "i", "c", "r", "o", "s", "o", "f", "t", " ", "P", "a", "u", "l">>,
        <<"G", "o", "o", "g", "l", "e", " ", "U", "K", " ", "E", "n", "g", "l", "i", "s", "h", " ", "M", "a", "l", "e">>,
        <<"O", "l", "i", "v", "e", "r">>,
        <<"R", "a", "l", "p", "h">>,
        <<"m", "a", "l", "e">> >>,
   adam |->
     << <<"M", "i", "c", "r", "o", "s", "o", "f", "t", " ", "M", "a", "r", "k">>,
        <<"G", "o", "o", "g", "l", "e", " ", "U", "S", " ", "E", "n", "g", "l", "i", "s", "h", " ", "M", "a", "l", "e">>,
        <<"A", "a", "r", "o", "n">>,
        <<"B", "r", "u", "c", "e">>,
        <<"m", "a", "l", "e">> >>,
   sam |->
     << <<"M", "i", "c", "r", "o", "s", "o", "f", "t", " ", "D", "a", "v", "i", "d">>,
        <<"G", "o", "o", "g", "l", "e", " ", "U", "S", " ", "E", "n", "g", "l", "i", "s", "h", " ", "M", "a", "l", "e">>,
        <<"S", "a", "m">>,
        <<"J", "u", "n", "i", "o", "r">>,
        <<"m", "a", "l", "e">> >>]

\* voiceMap[voiceId] || ['female']                  part_002:640
PreviewPreferredVoices(voiceId) ==
  IF voiceId \in DOMAIN PreviewVoiceMap THEN PreviewVoiceMap[voiceId]
  ELSE << Female >>

\* preferredVoices.includes('female') || [...].includes(voiceId)   part_002:649-650
PreviewIsFemale(voiceId) ==
  \/ \E k \in 1..Len(PreviewPreferredVoices(voiceId)) :
       PreviewPreferredVoices(voiceId)[k] = Female
  \/ IsFemale(voiceId)

\* the test of the second find of previewVoice, part_002:651-655
PreviewMatchesGender(name, isFemale) ==
  IF isFemale THEN Includes(ToLowerCase(name), Female)
  ELSE Includes(ToLowerCase(name), Male)

\* selectedVoice of previewVoice, part_002:640-656: the index in the list,
\* 0 for undefined
PreviewSelectedVoice(voiceId, list) ==
  LET preferred == {i \in 1..Len(list) :
                      MatchesPreferred(list[i], PreviewPreferredVoices(voiceId))}
      gender    == {i \in 1..Len(list) :
                      PreviewMatchesGender(list[i], PreviewIsFemale(voiceId))}
  IN  IF Find(preferred) # 0 THEN Find(preferred) ELSE Find(gender)

(***************************************************************************)
(* The <audio> element of AudioPlayer (part_002:386).  Times are whole     *)
(* seconds, volume and playbackRate are hundredths.                        *)
(*   src     the object URL assigned to it, 0 for none                     *)
(*   ready   the data of src is loaded (readyState >= HAVE_CURRENT_DATA)   *)
(*   duration  the length of the resource, 0 until it is loaded            *)
(*   events  the events it has queued and not yet dispatched               *)
(***************************************************************************)
NewElement ==
  [src |-> 0, paused |-> TRUE, ready |-> FALSE, currentTime |-> 0,
   duration |-> 0, volume |-> 100, playbackRate |-> 100, events |-> <<>>]

DefaultVolume == 80      \* useState(0.8), part_002:267
DefaultRate == 100       \* useState(1), part_002:268

Init ==
  /\ text = EmptyText
  /\ isGenerating = FALSE
  /\ generationProgress = 0
  /\ currentAudio = <<>>
  /\ audioHistory = <<>>
  /\ voiceSettings = DefaultSettings
  /\ speechSupported \in BOOLEAN
  /\ progressInterval = FALSE
  /\ pending = <<>>
  /\ now = 0
  /\ urlCount = 0
  /\ revoked = {}
  /\ alerts = 0
  /\ produced = <<>>
  /\ lastOp = Op("init", "none")
  /\ voices = <<>>
  /\ previewUtterance = <<>>
  /\ isPlaying = FALSE
  /\ currentTime = 0
  /\ volume = DefaultVolume
  /\ playbackRate = DefaultRate
  /\ isLoading = TRUE
  /\ audioElement = NewElement
  /\ mounted = TRUE


(***************************************************************************)
(* generateVoice, page.tsx:148-197, and generateBrowserVoice, 51-146.      *)
(* A suspended call is a record: pc is the await it waits at, text and     *)
(* settings are the values its closure captured, audioUrl is the object    *)
(* URL it created (0 before line 169).                                     *)
(*   "timer"     the setTimeout of line 142 has not fired                  *)
(*   "speaking"  the utterance was handed to speechSynthesis.speak         *)
(*   "cancelled" speechSynthesis.cancel() removed the utterance; the       *)
(*               engine owes it an error event                             *)
(*   "loading"   awaiting loadedmetadata of new Audio(audioUrl), 173-175   *)
(*   "hung"      the audio element fired error; the promise of line 173    *)
(*               has no other settler                                      *)
(***************************************************************************)
Max(a, b) == IF a > b THEN a ELSE b

\* x || fallback for a number: 0 is falsy
OrDefault(x, fallback) == IF x = 0 THEN fallback ELSE x

\* Math.max(lo, Math.min(hi, x))
Clamp(lo, hi, x) == Max(lo, Min(hi, x))

\* utterance.rate = Math.max(0.5, Math.min(2.0, settings.speed || 1.0))   page.tsx:105
UtteranceRate(s) == Clamp(50, 200, OrDefault(s.speed, 100))

\* utterance.pitch = Math.max(0.5, Math.min(2.0, settings.pitch || 1.0))  page.tsx:106
UtterancePitch(s) == Clamp(50, 200, OrDefault(s.pitch, 100))

\* voice_settings of buildVoiceRequest, audio-utils.ts:221-224
RequestVoiceSettings(s) ==
  [stability        |-> Clamp(0, 100, OrDefault(s.stability, 75)),
   similarity_boost |-> Clamp(0, 100, OrDefault(s.clarity, 75))]

\* the call as generateBrowserVoice leaves it at line 144: voice, rate and
\* pitch are those of the utterance it built from the list getVoices()
\* returned
Call(t, s, list) ==
  [pc |-> "timer", text |-> t, settings |-> s, audioUrl |-> 0,
   voice |-> UtteranceVoice(SelectedVoice(s.voice, list), list),
   rate |-> UtteranceRate(s), pitch |-> UtterancePitch(s)]

\* Variants of the guard of line 149: without the isGenerating test, and
\* without the trim.
ShouldReturnUnguarded(t, generating) == Trim(t) = <<>>

ShouldReturnNoTrim(t, generating) == t = <<>> \/ generating

\* if (!text.trim() || isGenerating) return;      page.tsx:149
ShouldReturn(t, generating) == Trim(t) = <<>> \/ generating

\* window.speechSynthesis.cancel(): every utterance in the engine's queue is
\* removed and is owed an error event ("canceled" / "interrupted")
CancelSpeech(calls) ==
  [i \in 1..Len(calls) |->
     IF calls[i].pc = "speaking" THEN [calls[i] EXCEPT !.pc = "cancelled"]
     ELSE calls[i]]

\* Variant of the catch block: the error is logged and no dialog is shown.
CatchSilent(shown) == shown

\* catch: console.error(...); alert("Failed to generate voice...")  page.tsx:190-192
CatchAlert(shown) == shown + 1

\* Variant of the finally block: the flag is left as it is.
FinallyGeneratingKept(generating) == generating

\* finally: setIsGenerating(false)                 page.tsx:194
FinallyGenerating(generating) == FALSE

\* finally: setGenerationProgress(0)               page.tsx:195
FinallyProgress(progress) == 0

\* Variants of the history update: prev.slice(0, 10), and the new item put
\* last.
PrependKeepTen(newAudio, prev) == <<newAudio>> \o SliceFront(prev, HistoryKeep + 1)

PrependLast(newAudio, prev) == SliceFront(prev, HistoryKeep) \o <<newAudio>>

\* setAudioHistory(prev => [newAudio, ...prev.slice(0, 9)])   page.tsx:188
Prepend(newAudio, prev) == <<newAudio>> \o SliceFront(prev, HistoryKeep)

\* Variant of the selection: the item that was selected stays selected.
SetCurrentAudioKept(newAudio, current) == current

\* setCurrentAudio(newAudio)                       page.tsx:187
SetCurrentAudio(newAudio, current) == <<newAudio>>

\* the host clock at its next reading
Tick(clock) == clock + 1

\* Variant of the literal: the settings are copied from the state of the
\* page when the item is built.
NewAudioLiveSettings(call, duration, clock) ==
  [id        |-> clock,
   text      |-> PreviewText(call.text),
   voice     |-> call.settings.voice,
   audioUrl  |-> call.audioUrl,
   duration  |-> duration,
   createdAt |-> clock,
   settings  |-> voiceSettings]

\* Variant of the literal: text and voice are read from the state of the
\* page when the item is built, not from the closure of the call.
NewAudioLive(call, duration, clock) ==
  [id        |-> clock,
   text      |-> PreviewText(text),
   voice     |-> voiceSettings.voice,
   audioUrl  |-> call.audioUrl,
   duration  |-> duration,
   createdAt |-> clock,
   settings  |-> voiceSettings]

\* the GeneratedAudio literal of page.tsx:177-185
NewAudio(call, duration, clock) ==
  [id        |-> clock,
   text      |-> PreviewText(call.text),
   voice     |-> call.settings.voice,
   audioUrl  |-> call.audioUrl,
   duration  |-> duration,
   createdAt |-> clock,
   settings  |-> call.settings]

\* The element after lines 275-277 of the effect: assigning src restarts its
\* load, which pauses it, forgets the resource it had and drops the events
\* it had queued.
BoundElement(audio, vol, rate) ==
  [src |-> audio.audioUrl, paused |-> TRUE, ready |-> FALSE,
   currentTime |-> 0, duration |-> 0, volume |-> vol, playbackRate |-> rate,
   events |-> <<>>]

\* Variant of the effect: the position shown is not reset.
InitializeAudioElementKeepTime(audio) ==
  IF currentAudio = <<audio>>
  THEN UNCHANGED playerVars
  ELSE /\ audioElement' = BoundElement(audio, volume, playbackRate)
       /\ isLoading' = TRUE
       /\ isPlaying' = FALSE
       /\ UNCHANGED <<volume, playbackRate, currentTime>>

\* The effect of AudioPlayer, part_002:272-320, as it runs when the page
\* commits another GeneratedAudio as currentAudio: the element gets the new
\* src, drops the resource it had with the events it had queued, and is
\* paused; the player goes back to loading.  Committing the object that is
\* current already re-renders nothing.
InitializeAudioElement(audio) ==
  IF currentAudio = <<audio>>
  THEN UNCHANGED playerVars
  ELSE /\ audioElement' = BoundElement(audio, volume, playbackRate)
       /\ isLoading' = TRUE
       /\ currentTime' = 0
       /\ isPlaying' = FALSE
       /\ UNCHANGED <<volume, playbackRate>>

\* Variant of clearInterval: the timer stays armed.
ClearIntervalKept(armed) == armed

\* clearInterval(progressInterval), page.tsx:164, on the timer that line 156
\* has just armed
ClearInterval(armed) == FALSE

\* The click handler up to the first await.  The interval of line 156 is
\* cleared by line 164 in the same stretch, so it never ticks.
GenerateVoice(maxGen) ==
  /\ mounted
  /\ UNCHANGED mounted
  /\ IF ShouldReturn(text, isGenerating)
     THEN /\ lastOp' = Op("generateVoice", "returned")
          /\ UNCHANGED <<text, isGenerating, generationProgress, currentAudio,
                         audioHistory, voiceSettings, speechSupported,
                         progressInterval, pending, now, urlCount, revoked,
                         alerts, produced,
                    engineVars, playerVars>>
     ELSE IF ~speechSupported
     THEN \* reject at line 54, then catch and finally
          /\ alerts < MaxAlerts
          /\ alerts' = CatchAlert(alerts)
          /\ isGenerating' = FinallyGenerating(TRUE)
          /\ generationProgress' = FinallyProgress(ProgressDone)
          /\ progressInterval' = ClearInterval(TRUE)
          /\ lastOp' = Op("generateVoice", "alert")
          /\ UNCHANGED <<text, currentAudio, audioHistory, voiceSettings,
                         speechSupported, pending, now, urlCount, revoked,
                         produced,
                    engineVars, playerVars>>
     ELSE /\ now < maxGen
          /\ isGenerating' = TRUE
          /\ generationProgress' = ProgressDone
          /\ progressInterval' = ClearInterval(TRUE)
          /\ pending' = Append(CancelSpeech(pending), Call(text, voiceSettings, voices))
          /\ lastOp' = Op("generateVoice", "started")
          /\ UNCHANGED <<text, currentAudio, audioHistory, voiceSettings,
                         speechSupported, now, urlCount, revoked, alerts,
                         produced,
                    engineVars, playerVars>>

\* setTimeout(() => speechSynthesis.speak(utterance), 100)   page.tsx:142-144
SpeakTimer(i) ==
  /\ mounted
  /\ UNCHANGED mounted
  /\ pending[i].pc = "timer"
  /\ pending' = [pending EXCEPT ![i].pc = "speaking"]
  /\ lastOp' = Op("setTimeout", "speak")
  /\ UNCHANGED <<text, isGenerating, generationProgress, currentAudio,
                 audioHistory, voiceSettings, speechSupported,
                 progressInterval, now, urlCount, revoked, alerts, produced,
                 engineVars, playerVars>>

\* utterance.onend (114-131) resolves the blob; generateVoice resumes at
\* line 169, creates the object URL and the Audio element, and awaits again.
SpeechEnd(i) ==
  /\ mounted
  /\ UNCHANGED mounted
  /\ pending[i].pc = "speaking"
  /\ urlCount' = urlCount + 1
  /\ pending' = [pending EXCEPT ![i].pc = "loading", ![i].audioUrl = urlCount + 1]
  /\ lastOp' = Op("onend", "resolved")
  /\ UNCHANGED <<text, isGenerating, generationProgress, currentAudio,
                 audioHistory, voiceSettings, speechSupported,
                 progressInterval, now, revoked, alerts, produced,
                 engineVars, playerVars>>

\* utterance.onerror (133-136) rejects; generateVoice resumes in catch and
\* finally (190-196).
SpeechError(i) ==
  /\ mounted
  /\ UNCHANGED mounted
  /\ pending[i].pc \in {"speaking", "cancelled"}
  /\ alerts < MaxAlerts
  /\ alerts' = CatchAlert(alerts)
  /\ isGenerating' = FinallyGenerating(isGenerating)
  /\ generationProgress' = FinallyProgress(generationProgress)
  /\ pending' = RemoveAt(pending, i)
  /\ lastOp' = Op("onerror", "alert")
  /\ UNCHANGED <<text, currentAudio, audioHistory, voiceSettings,
                 speechSupported, progressInterval, now, urlCount, revoked,
                 produced,
                 engineVars, playerVars>>

\* loadedmetadata resolves the promise of line 173; generateVoice runs
\* lines 177-188 and the finally block.  Date.now() of line 178 reads a
\* clock that has moved on since it was last read: every call waits out the
\* 100 ms timer of line 142 before it gets here.
LoadedMetadata(i, d) ==
  /\ mounted
  /\ UNCHANGED mounted
  /\ pending[i].pc = "loading"
  /\ now' = Tick(now)
  /\ LET newAudio == NewAudio(pending[i], d, Tick(now)) IN
       /\ currentAudio' = SetCurrentAudio(newAudio, currentAudio)
       /\ InitializeAudioElement(newAudio)
       /\ audioHistory' = Prepend(newAudio, audioHistory)
       /\ produced' = Append(produced, newAudio)
  /\ isGenerating' = FinallyGenerating(isGenerating)
  /\ generationProgress' = FinallyProgress(generationProgress)
  /\ pending' = RemoveAt(pending, i)
  /\ lastOp' = Op("loadedmetadata", "appended")
  /\ UNCHANGED <<text, voiceSettings, speechSupported, progressInterval,
                 urlCount, revoked, alerts, engineVars>>

\* The audio element cannot decode the resource (the blob of line 127 is
\* JSON text) and fires error.  Lines 172-175 listen for loadedmetadata
\* only, so the call stays suspended.
AudioError(i) ==
  /\ mounted
  /\ UNCHANGED mounted
  /\ pending[i].pc = "loading"
  /\ pending' = [pending EXCEPT ![i].pc = "hung"]
  /\ lastOp' = Op("error", "unhandled")
  /\ UNCHANGED <<text, isGenerating, generationProgress, currentAudio,
                 audioHistory, voiceSettings, speechSupported,
                 progressInterval, now, urlCount, revoked, alerts, produced,
                 engineVars, playerVars>>

(***************************************************************************)
(* VoiceHistory, src/src/components/VoiceHistory.tsx.                      *)
(***************************************************************************)
\* Variant of the lookup: a.id !== audioId.
FindOtherAudio(history, audioId) ==
  IF \E i \in 1..Len(history) : history[i].id # audioId
  THEN CHOOSE i \in 1..Len(history) :
         /\ history[i].id # audioId
         /\ \A j \in 1..(i - 1) : history[j].id = audioId
  ELSE 0

\* history.find(a => a.id === audioId): the index of the first match, 0 for
\* undefined
FindAudio(history, audioId) ==
  IF \E i \in 1..Len(history) : history[i].id = audioId
  THEN CHOOSE i \in 1..Len(history) :
         /\ history[i].id = audioId
         /\ \A j \in 1..(i - 1) : history[j].id # audioId
  ELSE 0

\* onClick={() => onSelect(audio)} with onSelect={setCurrentAudio}
\* VoiceHistory.tsx:109, page.tsx:347
SelectAudio(i) ==
  /\ mounted
  /\ UNCHANGED mounted
  /\ i \in 1..Len(audioHistory)
  /\ currentAudio' = <<audioHistory[i]>>
  /\ InitializeAudioElement(audioHistory[i])
  /\ lastOp' = Op("onSelect", "selected")
  /\ UNCHANGED <<text, isGenerating, generationProgress, audioHistory,
                 voiceSettings, speechSupported, progressInterval, pending,
                 now, urlCount, revoked, alerts, produced, engineVars>>

\* deleteFromHistory, VoiceHistory.tsx:63-72
DeleteFromHistory(audioId) ==
  /\ mounted
  /\ UNCHANGED mounted
  /\ LET found == FindAudio(audioHistory, audioId) IN
       /\ IF found # 0
          THEN /\ audioHistory[found].audioUrl \notin revoked
                  => Cardinality(revoked) < MaxRevoked
               /\ revoked' = revoked \cup {audioHistory[found].audioUrl}
               /\ lastOp' = Op("deleteFromHistory", "revoked")
          ELSE /\ revoked' = revoked
               /\ lastOp' = Op("deleteFromHistory", "notfound")
       /\ UNCHANGED <<text, isGenerating, generationProgress, currentAudio,
                      audioHistory, voiceSettings, speechSupported,
                      progressInterval, pending, now, urlCount, alerts, produced,
                    engineVars, playerVars>>

(***************************************************************************)
(* AudioPlayer, src/unnamed/part_002:232-516.  It is mounted while         *)
(* currentAudio is not null (page.tsx:325-340).                            *)
(***************************************************************************)
\* HTMLMediaElement.pause(): a playing element is paused and queues pause
ElementPause(el) ==
  IF el.paused THEN el
  ELSE [el EXCEPT !.paused = TRUE, !.events = Append(@, "pause")]

\* HTMLMediaElement.play(): a paused element starts, from the beginning when
\* it had ended, and queues play
ElementPlay(el) ==
  IF el.paused
  THEN [el EXCEPT !.paused = FALSE,
                  !.currentTime = IF @ = el.duration THEN 0 ELSE @,
                  !.events = Append(@, "play")]
  ELSE el

\* The element's currentTime setter: a loaded element seeks to the time
\* clamped into its resource and queues timeupdate; before that the value
\* is only kept as the position to start from.
ElementSeek(el, time) ==
  IF el.ready
  THEN [el EXCEPT !.currentTime = Clamp(0, el.duration, time),
                  !.events = Append(@, "timeupdate")]
  ELSE el

\* Variant of the guard of togglePlayPause: isLoading is not tested.
ToggleReturnsLoaded(loading) == FALSE

\* if (!audioRef.current || isLoading) return;     part_002:323
\* audioRef.current is the element of the mounted player.
ToggleReturns(loading) == loading

\* togglePlayPause, part_002:322-332.  The promise of play() is rejected
\* when the host does not start playback (started is FALSE): the catch of
\* line 328 logs it.
TogglePlayPause(started) ==
  /\ mounted
  /\ UNCHANGED mounted
  /\ currentAudio # <<>>
  /\ Len(audioElement.events) < MaxEvents
  /\ IF ToggleReturns(isLoading)
     THEN /\ lastOp' = Op("togglePlayPause", "returned")
          /\ UNCHANGED audioElement
     ELSE IF isPlaying
     THEN /\ audioElement' = ElementPause(audioElement)
          /\ lastOp' = Op("togglePlayPause", "pause")
     ELSE IF started
     THEN /\ audioElement' = ElementPlay(audioElement)
          /\ lastOp' = Op("togglePlayPause", "play")
     ELSE /\ UNCHANGED audioElement
          /\ lastOp' = Op("togglePlayPause", "rejected")
  /\ UNCHANGED <<text, isGenerating, generationProgress, currentAudio,
                 audioHistory, voiceSettings, speechSupported,
                 progressInterval, pending, now, urlCount, revoked, alerts,
                 produced, engineVars, isPlaying, currentTime, volume,
                 playbackRate, isLoading>>

\* The element has loaded the data of its src and fires loadeddata:
\* handleLoadedData, part_002:282-284.  A revoked object URL cannot be
\* fetched.
AudioLoadedData ==
  /\ mounted
  /\ UNCHANGED mounted
  /\ currentAudio # <<>>
  /\ audioElement.src # 0
  /\ audioElement.src \notin revoked
  /\ ~audioElement.ready
  /\ audioElement' = [audioElement EXCEPT !.ready = TRUE,
                                          !.duration = currentAudio[1].duration]
  /\ isLoading' = FALSE
  /\ lastOp' = Op("loadeddata", "loaded")
  /\ UNCHANGED <<text, isGenerating, generationProgress, currentAudio,
                 audioHistory, voiceSettings, speechSupported,
                 progressInterval, pending, now, urlCount, revoked, alerts,
                 produced, engineVars, isPlaying, currentTime, volume,
                 playbackRate>>

\* Variant of the handlers: every event sets isPlaying.
EventIsPlayingAlways(event, playing) == TRUE

\* isPlaying after handlePlay, handlePause, handleEnded and
\* handleTimeUpdate, part_002:286-302
EventIsPlaying(event, playing) ==
  IF event = "play" THEN TRUE
  ELSE IF event \in {"pause", "ended"} THEN FALSE
  ELSE playing

\* currentTime after the handlers: handleEnded sets 0, handleTimeUpdate the
\* element's position
EventCurrentTime(event, current, el) ==
  IF event = "ended" THEN 0
  ELSE IF event = "timeupdate" THEN el.currentTime
  ELSE current

\* The element dispatches the event at the head of its queue: handlePlay,
\* handlePause, handleEnded and, after a seek, handleTimeUpdate,
\* part_002:286-302.
AudioEvent ==
  /\ mounted
  /\ UNCHANGED mounted
  /\ currentAudio # <<>>
  /\ audioElement.events # <<>>
  /\ audioElement' = [audioElement EXCEPT !.events = Tail(@)]
  /\ LET event == Head(audioElement.events) IN
       /\ isPlaying' = EventIsPlaying(event, isPlaying)
       /\ currentTime' = EventCurrentTime(event, currentTime, audioElement)
       /\ lastOp' = Op(event, "handled")
  /\ UNCHANGED <<text, isGenerating, generationProgress, currentAudio,
                 audioHistory, voiceSettings, speechSupported,
                 progressInterval, pending, now, urlCount, revoked, alerts,
                 produced, engineVars, volume, playbackRate, isLoading>>

\* The element plays on for a second and fires timeupdate:
\* handleTimeUpdate, part_002:286-288.  A second of playback is long
\* enough for the events queued before it to be dispatched.
AudioTimeUpdate ==
  /\ mounted
  /\ UNCHANGED mounted
  /\ currentAudio # <<>>
  /\ audioElement.events = <<>>
  /\ audioElement.ready
  /\ ~audioElement.paused
  /\ audioElement.playbackRate > 0
  /\ audioElement.currentTime < audioElement.duration
  /\ audioElement' = [audioElement EXCEPT !.currentTime = @ + 1]
  /\ currentTime' = audioElement.currentTime + 1
  /\ lastOp' = Op("timeupdate", "handled")
  /\ UNCHANGED <<text, isGenerating, generationProgress, currentAudio,
                 audioHistory, voiceSettings, speechSupported,
                 progressInterval, pending, now, urlCount, revoked, alerts,
                 produced, engineVars, isPlaying, volume, playbackRate,
                 isLoading>>

\* The element reaches the end of the resource: it pauses itself and queues
\* pause and ended.
AudioEnded ==
  /\ mounted
  /\ UNCHANGED mounted
  /\ currentAudio # <<>>
  /\ audioElement.events = <<>>
  /\ audioElement.ready
  /\ ~audioElement.paused
  /\ audioElement.currentTime = audioElement.duration
  /\ audioElement' = [audioElement EXCEPT !.paused = TRUE,
                                          !.events = @ \o <<"pause", "ended">>]
  /\ lastOp' = Op("playback", "ended")
  /\ UNCHANGED <<text, isGenerating, generationProgress, currentAudio,
                 audioHistory, voiceSettings, speechSupported,
                 progressInterval, pending, now, urlCount, revoked, alerts,
                 produced, engineVars, isPlaying, currentTime, volume,
                 playbackRate, isLoading>>

\* stop, part_002:334-341
Stop ==
  /\ mounted
  /\ UNCHANGED mounted
  /\ currentAudio # <<>>
  /\ audioElement' = ElementSeek(ElementPause(audioElement), 0)
  /\ Len(audioElement'.events) <= MaxEvents
  /\ currentTime' = 0
  /\ isPlaying' = FALSE
  /\ lastOp' = Op("stop", "stopped")
  /\ UNCHANGED <<text, isGenerating, generationProgress, currentAudio,
                 audioHistory, voiceSettings, speechSupported,
                 progressInterval, pending, now, urlCount, revoked, alerts,
                 produced, engineVars, volume, playbackRate, isLoading>>

\* the times seek is called with: before the start, within, and past the end
\* of a resource of 2 seconds
SeekTimes == {-1, 1, 3}

\* seek, part_002:343-349
Seek(time) ==
  /\ mounted
  /\ UNCHANGED mounted
  /\ currentAudio # <<>>
  /\ Len(audioElement.events) < MaxEvents
  /\ IF isLoading
     THEN /\ lastOp' = Op("seek", "returned")
          /\ UNCHANGED <<audioElement, currentTime>>
     ELSE /\ audioElement' = ElementSeek(audioElement, time)
          /\ currentTime' = time
          /\ lastOp' = Op("seek", "sought")
  /\ UNCHANGED <<text, isGenerating, generationProgress, currentAudio,
                 audioHistory, voiceSettings, speechSupported,
                 progressInterval, pending, now, urlCount, revoked, alerts,
                 produced, engineVars, isPlaying, volume, playbackRate,
                 isLoading>>

\* the volumes changeVolume is called with, in hundredths
VolumeValues == {-50, 0, 50, 150}

\* the element's volume setter takes values within [0, 1] and throws
\* IndexSizeError for any other
VolumeAccepted(vol) == vol \in 0..100

\* changeVolume, part_002:351-357, and the effect of lines 272-320, which
\* has volume among its dependencies and runs again when the value changed.
\* A value the element does not take makes line 355 throw after setVolume
\* was called; the effect then runs with that value and throws on line 276,
\* after it has assigned src, and React unmounts the page.
ChangeVolume(vol) ==
  /\ mounted
  /\ currentAudio # <<>>
  /\ volume' = vol
  /\ IF ~VolumeAccepted(vol)
     THEN /\ mounted' = FALSE
          /\ audioElement' = BoundElement(currentAudio[1], audioElement.volume,
                                          audioElement.playbackRate)
          /\ lastOp' = Op("changeVolume", "threw")
          /\ UNCHANGED <<isLoading, currentTime, isPlaying>>
     ELSE IF vol = volume
     THEN /\ audioElement' = [audioElement EXCEPT !.volume = vol]
          /\ lastOp' = Op("changeVolume", "same")
          /\ UNCHANGED <<isLoading, currentTime, isPlaying, mounted>>
     ELSE /\ audioElement' = BoundElement(currentAudio[1], vol, playbackRate)
          /\ isLoading' = TRUE
          /\ currentTime' = 0
          /\ isPlaying' = FALSE
          /\ lastOp' = Op("changeVolume", "changed")
          /\ UNCHANGED mounted
  /\ UNCHANGED <<text, isGenerating, generationProgress, currentAudio,
                 audioHistory, voiceSettings, speechSupported,
                 progressInterval, pending, now, urlCount, revoked, alerts,
                 produced, engineVars, playbackRate>>

\* the rates changePlaybackRate is called with, in hundredths
RateValues == {-100, 0, 50, 200}

\* the element's playbackRate setter takes 0 and the rates the host can play,
\* and throws NotSupportedError for a negative rate
RateAccepted(rate) == rate >= 0

\* changePlaybackRate, part_002:359-364, and the effect of lines 272-320,
\* which has playbackRate among its dependencies; a rate the element does
\* not take throws on line 362 and again on line 277.
ChangePlaybackRate(rate) ==
  /\ mounted
  /\ currentAudio # <<>>
  /\ playbackRate' = rate
  /\ IF ~RateAccepted(rate)
     THEN /\ mounted' = FALSE
          /\ audioElement' = BoundElement(currentAudio[1], volume,
                                          audioElement.playbackRate)
          /\ lastOp' = Op("changePlaybackRate", "threw")
          /\ UNCHANGED <<isLoading, currentTime, isPlaying>>
     ELSE IF rate = playbackRate
     THEN /\ audioElement' = [audioElement EXCEPT !.playbackRate = rate]
          /\ lastOp' = Op("changePlaybackRate", "same")
          /\ UNCHANGED <<isLoading, currentTime, isPlaying, mounted>>
     ELSE /\ audioElement' = BoundElement(currentAudio[1], volume, rate)
          /\ isLoading' = TRUE
          /\ currentTime' = 0
          /\ isPlaying' = FALSE
          /\ lastOp' = Op("changePlaybackRate", "changed")
          /\ UNCHANGED mounted
  /\ UNCHANGED <<text, isGenerating, generationProgress, currentAudio,
                 audioHistory, voiceSettings, speechSupported,
                 progressInterval, pending, now, urlCount, revoked, alerts,
                 produced, engineVars, volume>>

(***************************************************************************)
(* VoiceSelector, src/unnamed/part_002:517-790.                            *)
(***************************************************************************)
\* previewVoice, part_002:611-677.  The function has no await: it runs to
\* its finally block in one stretch, and previewingVoice is null again when
\* React commits.  speechSynthesis.cancel() of line 668 empties the engine's
\* queue, the utterance of a generateVoice call included.
PreviewVoice(voiceId) ==
  /\ mounted
  /\ UNCHANGED mounted
  /\ IF ~speechSupported
     THEN /\ alerts < MaxAlerts
          /\ alerts' = alerts + 1
          /\ lastOp' = Op("previewVoice", "alert")
          /\ UNCHANGED <<text, isGenerating, generationProgress, currentAudio,
                         audioHistory, voiceSettings, speechSupported,
                         progressInterval, pending, now, urlCount, revoked,
                         produced, engineVars, playerVars>>
     ELSE /\ previewUtterance' =
               <<[voice |-> UtteranceVoice(PreviewSelectedVoice(voiceId, voices), voices),
                  rate |-> 100, pitch |-> 100]>>
          /\ pending' = CancelSpeech(pending)
          /\ lastOp' = Op("previewVoice", "spoken")
          /\ UNCHANGED <<text, isGenerating, generationProgress, currentAudio,
                         audioHistory, voiceSettings, speechSupported,
                         progressInterval, now, urlCount, revoked, alerts,
                         produced, voices, playerVars>>

(***************************************************************************)
(* The inputs of the page.                                                 *)
(***************************************************************************)
\* TextInput onChange={setText}, page.tsx:251-255
SetText(t) ==
  /\ mounted
  /\ UNCHANGED mounted
  /\ t # text
  /\ text' = t
  /\ lastOp' = Op("setText", "set")
  /\ UNCHANGED <<isGenerating, generationProgress, currentAudio, audioHistory,
                 voiceSettings, speechSupported, progressInterval, pending,
                 now, urlCount, revoked, alerts, produced,
                 engineVars, playerVars>>

\* the voices picked in the scenarios of SettingsSpec
SettingsVoices == {"rachel", "josh"}

\* VoiceSelector onChange={(voice) => setVoiceSettings(prev => ({...prev, voice}))}
\* page.tsx:267-270
ChangeVoice(v) ==
  /\ mounted
  /\ UNCHANGED mounted
  /\ voiceSettings' = [voiceSettings EXCEPT !.voice = v]
  /\ lastOp' = Op("onChange", "voice")
  /\ UNCHANGED <<text, isGenerating, generationProgress, currentAudio,
                 audioHistory, speechSupported, progressInterval, pending,
                 now, urlCount, revoked, alerts, produced, engineVars,
                 playerVars>>

\* the sliders moved in the scenarios of SnapshotSpec, and the value they
\* are moved to, in hundredths
SnapshotKeys == {"speed", "stability"}
SnapshotValues == {50}

\* updateSetting, part_002:23-28, with onChange={setVoiceSettings}
UpdateSetting(key, value) ==
  /\ mounted
  /\ UNCHANGED mounted
  /\ voiceSettings' = [voiceSettings EXCEPT ![key] = value]
  /\ lastOp' = Op("updateSetting", key)
  /\ UNCHANGED <<text, isGenerating, generationProgress, currentAudio,
                 audioHistory, speechSupported, progressInterval, pending,
                 now, urlCount, revoked, alerts, produced, engineVars,
                 playerVars>>

\* resetToDefaults, part_002:30-38
ResetToDefaults ==
  /\ mounted
  /\ UNCHANGED mounted
  /\ voiceSettings' = [DefaultSettings EXCEPT !.voice = voiceSettings.voice]
  /\ lastOp' = Op("resetToDefaults", "reset")
  /\ UNCHANGED <<text, isGenerating, generationProgress, currentAudio,
                 audioHistory, speechSupported, progressInterval, pending,
                 now, urlCount, revoked, alerts, produced, engineVars,
                 playerVars>>

Calls == 1..Len(pending)

\* The ids deleteFromHistory is called with: every id the clock can give,
\* and 0, which is the id of no GeneratedAudio.
AudioIds(maxGen) == 0..maxGen

Next ==
  \/ GenerateVoice(MaxGenerations)
  \/ \E i \in Calls : SpeakTimer(i)
  \/ \E i \in Calls : SpeechEnd(i)
  \/ \E i \in Calls : SpeechError(i)
  \/ \E i \in Calls, d \in Durations : LoadedMetadata(i, d)
  \/ \E i \in Calls : AudioError(i)
  \/ \E i \in 1..Len(audioHistory) : SelectAudio(i)
  \/ \E id \in AudioIds(MaxGenerations) : DeleteFromHistory(id)
  \/ \E t \in Texts : SetText(t)

Spec == Init /\ [][Next]_vars

\* The session of the history scenarios: one text, the default voice, many
\* generations.
HistoryNext ==
  \/ GenerateVoice(MaxHistoryGenerations)
  \/ \E i \in Calls : SpeakTimer(i)
  \/ \E i \in Calls : SpeechEnd(i)
  \/ \E i \in Calls : SpeechError(i)
  \/ \E i \in Calls, d \in Durations : LoadedMetadata(i, d)
  \/ \E i \in Calls : AudioError(i)
  \/ \E i \in 1..Len(audioHistory) : SelectAudio(i)
  \/ \E id \in AudioIds(MaxHistoryGenerations) : DeleteFromHistory(id)
  \/ SetText(HelloText)

HistorySpec == Init /\ [][HistoryNext]_vars


\* The session of the settings scenarios: the text and the voice change
\* between and during generations.
SettingsNext ==
  \/ GenerateVoice(MaxSettingsGenerations)
  \/ \E i \in Calls : SpeakTimer(i)
  \/ \E i \in Calls : SpeechEnd(i)
  \/ \E i \in Calls : SpeechError(i)
  \/ \E i \in Calls, d \in Durations : LoadedMetadata(i, d)
  \/ \E i \in Calls : AudioError(i)
  \/ \E v \in SettingsVoices : ChangeVoice(v)
  \/ \E t \in Texts : SetText(t)

SettingsSpec == Init /\ [][SettingsNext]_vars

\* The session of the snapshot scenarios: the voice and the sliders change
\* between and during generations.
SnapshotNext ==
  \/ GenerateVoice(MaxSnapshotGenerations)
  \/ \E i \in Calls : SpeakTimer(i)
  \/ \E i \in Calls : SpeechEnd(i)
  \/ \E i \in Calls : SpeechError(i)
  \/ \E i \in Calls, d \in Durations : LoadedMetadata(i, d)
  \/ \E i \in Calls : AudioError(i)
  \/ SetText(HelloText)
  \/ \E v \in SettingsVoices : ChangeVoice(v)
  \/ \E key \in SnapshotKeys, value \in SnapshotValues : UpdateSetting(key, value)
  \/ ResetToDefaults

SnapshotSpec == Init /\ [][SnapshotNext]_vars

\* The session of the player scenarios: few items, one text, and the
\* handlers and events of AudioPlayer.
PlayerNext ==
  \/ GenerateVoice(MaxPlayerGenerations)
  \/ \E i \in Calls : SpeakTimer(i)
  \/ \E i \in Calls : SpeechEnd(i)
  \/ \E i \in Calls : SpeechError(i)
  \/ \E i \in Calls, d \in Durations : LoadedMetadata(i, d)
  \/ \E i \in Calls : AudioError(i)
  \/ \E i \in 1..Len(audioHistory) : SelectAudio(i)
  \/ \E id \in AudioIds(MaxPlayerGenerations) : DeleteFromHistory(id)
  \/ SetText(HelloText)
  \/ \E started \in BOOLEAN : TogglePlayPause(started)
  \/ AudioLoadedData
  \/ AudioEvent
  \/ AudioTimeUpdate
  \/ AudioEnded
  \/ Stop
  \/ \E time \in SeekTimes : Seek(time)

PlayerSpec == Init /\ [][PlayerNext]_vars

\* The AudioPlayer with all its controls, over the items of one generation
\* after another.
ControlsNext ==
  \/ GenerateVoice(MaxControlGenerations)
  \/ \E i \in Calls : SpeakTimer(i)
  \/ \E i \in Calls : SpeechEnd(i)
  \/ \E i \in Calls : SpeechError(i)
  \/ \E i \in Calls, d \in Durations : LoadedMetadata(i, d)
  \/ \E i \in Calls : AudioError(i)
  \/ SetText(HelloText)
  \/ \E started \in BOOLEAN : TogglePlayPause(started)
  \/ AudioLoadedData
  \/ AudioEvent
  \/ AudioTimeUpdate
  \/ AudioEnded
  \/ Stop
  \/ \E time \in SeekTimes : Seek(time)
  \/ \E vol \in VolumeValues : ChangeVolume(vol)
  \/ \E rate \in RateValues : ChangePlaybackRate(rate)

ControlsSpec == Init /\ [][ControlsNext]_vars

\* The session of the voice scenarios.  The inputs of voice resolution are
\* drawn at the start: the list the engine returns, and the voice id of the
\* settings, from the catalog or not.  The preview is that of the voice
\* selected.
VoiceInit ==
  /\ text = HelloText
  /\ isGenerating = FALSE
  /\ generationProgress = 0
  /\ currentAudio = <<>>
  /\ audioHistory = <<>>
  /\ \E id \in VoiceIds : voiceSettings = [DefaultSettings EXCEPT !.voice = id]
  /\ speechSupported = TRUE
  /\ progressInterval = FALSE
  /\ pending = <<>>
  /\ now = 0
  /\ urlCount = 0
  /\ revoked = {}
  /\ alerts = 0
  /\ produced = <<>>
  /\ lastOp = Op("init", "none")
  /\ voices \in VoiceLists(MaxVoices)
  /\ previewUtterance = <<>>
  /\ isPlaying = FALSE
  /\ currentTime = 0
  /\ volume = DefaultVolume
  /\ playbackRate = DefaultRate
  /\ isLoading = TRUE
  /\ audioElement = NewElement
  /\ mounted = TRUE

VoiceNext ==
  \/ GenerateVoice(MaxVoiceGenerations)
  \/ \E i \in Calls : SpeakTimer(i)
  \/ \E i \in Calls : SpeechEnd(i)
  \/ \E i \in Calls : SpeechError(i)
  \/ \E i \in Calls, d \in Durations : LoadedMetadata(i, d)
  \/ \E i \in Calls : AudioError(i)
  \/ PreviewVoice(voiceSettings.voice)

VoiceSpec == VoiceInit /\ [][VoiceNext]_vars

\* The values a caller can put in a numeric field of VoiceSettings, in
\* hundredths: in range, below and above every range, and 0, which
\* "x || fallback" takes for a missing value.
SettingValues == {-50, 0, 25, 100, 175, 500}

\* The session of the clamping scenarios: the numeric settings are drawn at
\* the start, and generateVoice builds its utterance from them.
ClampInit ==
  /\ text = HelloText
  /\ isGenerating = FALSE
  /\ generationProgress = 0
  /\ currentAudio = <<>>
  /\ audioHistory = <<>>
  /\ \E sp, pi, st, cl \in SettingValues :
       voiceSettings = [voice |-> "rachel", speed |-> sp, pitch |-> pi,
                        stability |-> st, clarity |-> cl]
  /\ speechSupported = TRUE
  /\ progressInterval = FALSE
  /\ pending = <<>>
  /\ now = 0
  /\ urlCount = 0
  /\ revoked = {}
  /\ alerts = 0
  /\ produced = <<>>
  /\ lastOp = Op("init", "none")
  /\ voices = <<>>
  /\ previewUtterance = <<>>
  /\ isPlaying = FALSE
  /\ currentTime = 0
  /\ volume = DefaultVolume
  /\ playbackRate = DefaultRate
  /\ isLoading = TRUE
  /\ audioElement = NewElement
  /\ mounted = TRUE

ClampNext ==
  \/ GenerateVoice(MaxClampGenerations)
  \/ \E i \in Calls : SpeakTimer(i)
  \/ \E i \in Calls : SpeechEnd(i)
  \/ \E i \in Calls : SpeechError(i)
  \/ \E i \in Calls, d \in Durations : LoadedMetadata(i, d)
  \/ \E i \in Calls : AudioError(i)

ClampSpec == ClampInit /\ [][ClampNext]_vars

\* The scheduling of the host: a timer that is set fires, the speech engine
\* ends or fails every utterance it was given, and the audio element settles
\* every load with loadedmetadata or with error.
FairSpec ==
  /\ Spec
  /\ WF_vars(\E i \in Calls : SpeakTimer(i))
  /\ WF_vars(\E i \in Calls : SpeechEnd(i) \/ SpeechError(i))
  /\ WF_vars(\E i \in Calls, d \in Durations : LoadedMetadata(i, d) \/ AudioError(i))

(***************************************************************************)
(* Properties.                                                             *)
(***************************************************************************)
InHistory(history, audioId) == \E i \in 1..Len(history) : history[i].id = audioId

\* C1: in every reachable state, whatever generate, select and remove
\* operations led to it, the history holds at most 10 items.
C1_HistoryAtMostTen == Len(audioHistory) <= 10

C1_Witness ==
  /\ Len(produced) = 12
  /\ Len(audioHistory) = 10
  /\ revoked # {}
  /\ lastOp.op = "onSelect"

\* C2: every item that has left the history has had its object URL revoked:
\* the item an append drops is released before it is dropped.
C2_EvictedReleased ==
  \A k \in 1..Len(produced) :
    ~InHistory(audioHistory, produced[k].id) => produced[k].audioUrl \in revoked

\* C3: with no removal so far, after n generations that succeeded the history
\* is the min(n, 10) items built last, the newest first; after 11 the first
\* item is gone and it is the only one that is gone.
C3_MostRecentFirst ==
  LET n == Len(produced)
      m == Min(n, 10)
  IN  revoked = {} =>
        /\ Len(audioHistory) = m
        /\ \A i \in 1..m : audioHistory[i] = produced[n + 1 - i]
        /\ n = 11 =>
             /\ \A i \in 1..Len(audioHistory) : audioHistory[i] # produced[1]
             /\ n - Len(audioHistory) = 1

C3_Witness ==
  /\ Len(produced) = 11
  /\ revoked = {}
  /\ alerts = 0

\* C4: at most one generateVoice call is suspended at any time, and a call
\* made while one is suspended returns at line 149 without touching the
\* speech engine, the call before it and the flag.
C4_SingleFlight ==
  /\ [](Len(pending) <= 1)
  /\ [][(lastOp'.op = "generateVoice" /\ pending # <<>>)
          => /\ lastOp'.out = "returned"
             /\ UNCHANGED <<pending, isGenerating, urlCount, alerts>>]_vars

\* the second call comes right after the first: its timer has not fired yet
C4_Witness ==
  /\ lastOp = Op("generateVoice", "returned")
  /\ Trim(text) # <<>>
  /\ Len(pending) = 1
  /\ pending[1].pc = "timer"

\* C5: the step that completes a generation, by success or by an engine
\* error, clears isGenerating, and a generateVoice call made with the flag
\* clear and a text that is not blank starts a generation.
C5_GuardClearedOnCompletion ==
  [][/\ lastOp'.op \in {"onerror", "loadedmetadata"}
          => (~isGenerating' /\ pending' = <<>>)
     /\ (lastOp'.op = "generateVoice" /\ ~isGenerating /\ speechSupported
           /\ Trim(text) # <<>>)
          => (lastOp'.out = "started" /\ isGenerating' /\ Len(pending') = 1)]_vars

\* a call is accepted after a failure and a success
C5_Witness ==
  /\ lastOp = Op("generateVoice", "started")
  /\ Len(produced) >= 1
  /\ alerts >= 1

\* C6: every generation that was accepted completes and clears isGenerating,
\* also when the audio element never fires loadedmetadata.
C6_EventuallyCompletes == isGenerating ~> ~isGenerating

\* C7: a generateVoice call with an empty or blank text returns at line 149:
\* no engine call, no object URL, no item, and the history, the selection
\* and isGenerating are as they were.
C7_BlankTextReturns ==
  [][(lastOp'.op = "generateVoice" /\ Trim(text) = <<>>)
       => /\ lastOp'.out = "returned"
          /\ UNCHANGED <<pending, urlCount, produced, audioHistory,
                         currentAudio, isGenerating, alerts, revoked, now>>]_vars

C7_Witness ==
  /\ lastOp = Op("generateVoice", "returned")
  /\ text = BlankText
  /\ ~isGenerating
  /\ audioHistory # <<>>

\* C8: when the engine fires error for a suspended call, the call ends
\* without building an item: the user gets the alert, and neither that step
\* nor any earlier step of the call changes the history or the selection.
C8_EngineErrorFails ==
  [][/\ lastOp'.op = "onerror"
          => /\ alerts' = alerts + 1
             /\ Len(pending') = Len(pending) - 1
             /\ UNCHANGED <<audioHistory, currentAudio, produced, urlCount>>
     /\ lastOp'.op \in {"generateVoice", "setTimeout"}
          => UNCHANGED <<audioHistory, currentAudio, produced, urlCount>>]_vars

C8_Witness ==
  /\ lastOp = Op("onerror", "alert")
  /\ audioHistory # <<>>
  /\ currentAudio # <<>>
  /\ pending = <<>>

\* C9: deleteFromHistory(id) for an id in the history revokes the item's
\* object URL and takes the item out of the history; the other items keep
\* their order.
C9_DeleteRemoves ==
  [][\A id \in AudioIds(MaxGenerations) :
       (DeleteFromHistory(id) /\ InHistory(audioHistory, id))
         => LET i == FindAudio(audioHistory, id)
            IN  /\ audioHistory[i].audioUrl \in revoked'
                /\ audioHistory' = RemoveAt(audioHistory, i)
                /\ ~InHistory(audioHistory', id)]_vars

\* C10: deleteFromHistory(id) for an id that is not in the history finds
\* nothing, revokes nothing and changes nothing; the state after it is a
\* fixed point of the call.
C10_DeleteAbsent ==
  [][\A id \in AudioIds(MaxGenerations) :
       (DeleteFromHistory(id) /\ ~InHistory(audioHistory, id))
         => /\ lastOp' = Op("deleteFromHistory", "notfound")
            /\ UNCHANGED <<text, isGenerating, generationProgress,
                           currentAudio, audioHistory, voiceSettings,
                           speechSupported, progressInterval, pending, now,
                           urlCount, revoked, alerts, produced, engineVars,
                           playerVars, mounted>>]_vars

C10_Witness ==
  /\ lastOp = Op("deleteFromHistory", "notfound")
  /\ audioHistory # <<>>

\* C11: whenever the engine's list of voices is not empty, the voice
\* generateBrowserVoice gives the utterance is a member of that list, for
\* every voice id, the ids that are not in the catalog included.
C11_ResolvesToMember ==
  \A i \in Calls :
    voices # <<>> =>
      /\ pending[i].voice # <<>>
      /\ \E k \in 1..Len(voices) : voices[k] = pending[i].voice[1]

\* an id that is not in the catalog, and a list no fragment and no gender
\* word matches
C11_Witness ==
  /\ voiceSettings.voice = UnknownId
  /\ voices = <<Alice, MicrosoftMark>>
  /\ Len(pending) = 1
  /\ pending[1].voice = <<Alice>>
  /\ pending[1].pc = "speaking"

\* C12: when the engine's list of voices is empty, voice resolution fails
\* the call: no utterance of it is handed to speechSynthesis.speak, and no
\* item is built from it.
C12_NoVoicesNoSpeech ==
  voices = <<>> =>
    /\ \A i \in Calls : pending[i].pc = "timer"
    /\ produced = <<>>

C14_ToggleIgnoredWhileLoading ==
  [][/\ (lastOp'.op = "togglePlayPause" /\ isLoading)
          => /\ lastOp'.out = "returned"
             /\ UNCHANGED audioElement
             /\ ~isPlaying /\ ~isPlaying'
     /\ (lastOp'.op = "togglePlayPause" /\ lastOp'.out # "returned")
          => (audioElement.ready /\ ~isLoading)]_vars

\* the toggle comes while the second item loads
C14_Witness ==
  /\ lastOp = Op("togglePlayPause", "returned")
  /\ isLoading
  /\ Len(audioHistory) = 2
  /\ currentAudio = <<audioHistory[1]>>
  /\ audioElement.src = audioHistory[1].audioUrl
  /\ ~audioElement.ready

\* C15: the progress shown is within [0, 100]; while a generation runs it
\* never goes down; it is at most 90 as long as the engine has not ended the
\* utterance, and 100 only after that.
C15_ProgressFollowsEngine ==
  /\ [](generationProgress \in 0..100)
  /\ [](\A i \in Calls :
          pending[i].pc \in {"timer", "speaking", "cancelled"}
            => generationProgress <= 90)
  /\ [][(isGenerating /\ isGenerating')
          => generationProgress' >= generationProgress]_vars

\* C16: whenever a generation is pending it can be cancelled: some step the
\* page can take ends the call with the progress timer stopped, no item
\* built, the object URL the call had created revoked, and isGenerating
\* false.
C16_PendingCanBeCancelled ==
  pending # <<>> =>
    ENABLED (/\ Next
             /\ pending' = <<>>
             /\ ~isGenerating'
             /\ ~progressInterval'
             /\ produced' = produced
             /\ \A i \in Calls :
                  pending[i].audioUrl # 0 => pending[i].audioUrl \in revoked')

\* C17: the item selected is none or an item of the history: an item that
\* leaves the history does not stay selected.
C17_SelectionInHistory ==
  currentAudio # <<>> =>
    \E i \in 1..Len(audioHistory) : audioHistory[i] = currentAudio[1]

\* an item has left the history, and the oldest item left is selected
C17_Witness ==
  /\ Len(produced) = 11
  /\ Len(audioHistory) = 10
  /\ lastOp = Op("onSelect", "selected")
  /\ currentAudio = <<audioHistory[10]>>
  /\ currentAudio = <<produced[2]>>

\* C18: a generateVoice call takes the text and the settings of the page at
\* the click, and the step that completes it builds exactly one item, puts it
\* first in the history with the items before it behind it, and selects it;
\* the item's voice is the voice of those settings, and its text is that
\* text when the text has at most 100 characters.
C18_SuccessAddsOneItem ==
  [][/\ (lastOp'.op = "generateVoice" /\ lastOp'.out = "started")
          => /\ pending'[Len(pending')].text = text
             /\ pending'[Len(pending')].settings = voiceSettings
     /\ lastOp'.op = "loadedmetadata"
          => /\ Len(produced') = Len(produced) + 1
             /\ produced'[Len(produced')] = audioHistory'[1]
             /\ audioHistory' = <<audioHistory'[1]>> \o SliceFront(audioHistory, 9)
             /\ ~InHistory(audioHistory, audioHistory'[1].id)
             /\ currentAudio' = <<audioHistory'[1]>>
             /\ audioHistory'[1].voice = pending[1].settings.voice
             /\ Len(pending[1].text) <= 100
                  => audioHistory'[1].text = pending[1].text]_vars

\* the text and the voice were changed while the call was suspended
C18_Witness ==
  /\ lastOp = Op("loadedmetadata", "appended")
  /\ Len(audioHistory) = 2
  /\ audioHistory[1].text = HelloText
  /\ text = LongText
  /\ audioHistory[1].voice = "josh"
  /\ voiceSettings.voice = "rachel"

\* C19: with a list that is not empty, the voice an utterance gets is the
\* first voice of the list whose name contains, in any letter case, a
\* fragment of the preference list of the voice id; when no name contains
\* one, the first voice whose name contains a gender word of the identity;
\* and when none does, the first voice of the list.  This holds for the
\* utterance of generateBrowserVoice and for the utterance of previewVoice.
\* An id that is not in the catalog is resolved with the words for male.
C19_ResolutionOrder ==
  LET id == voiceSettings.voice
      Resolved(preferred) ==
        LET ByFragment(name) ==
              \E k \in 1..Len(preferred) :
                Includes(ToLowerCase(name), ToLowerCase(preferred[k]))
            ByGender(name) ==
              \E word \in (IF IsFemale(id) THEN {Female, Woman} ELSE {Male, Man}) :
                Includes(ToLowerCase(name), word)
            First(Test(_)) == Find({i \in 1..Len(voices) : Test(voices[i])})
        IN  IF First(ByFragment) # 0 THEN <<voices[First(ByFragment)]>>
            ELSE IF First(ByGender) # 0 THEN <<voices[First(ByGender)]>>
            ELSE <<voices[1]>>
  IN  voices # <<>> =>
        /\ \A i \in Calls : pending[i].voice = Resolved(PreferredVoices(id))
        /\ (previewUtterance # <<>> /\ id \in CatalogIds)
             => previewUtterance[1].voice = Resolved(PreviewPreferredVoices(id))

\* C20: for a male identity (antoni, josh, arnold, adam, sam), while the
\* list has a voice whose name says male or man and neither female nor
\* woman, the voice generateBrowserVoice gives the utterance does not say
\* female or woman, unless one of the identity's name fragments picked it.
C20_GenderWordsConsistent ==
  LET id == voiceSettings.voice
      MarksFemale(name) ==
        \/ Includes(ToLowerCase(name), Female)
        \/ Includes(ToLowerCase(name), Woman)
      MarksMale(name) ==
        /\ Includes(ToLowerCase(name), Male) \/ Includes(ToLowerCase(name), Man)
        /\ ~MarksFemale(name)
      ByNameFragment(name) ==
        \E k \in 1..Len(PreferredVoices(id)) :
          /\ PreferredVoices(id)[k] \notin {Female, Male}
          /\ Includes(ToLowerCase(name), ToLowerCase(PreferredVoices(id)[k]))
  IN  (/\ id \in {"antoni", "josh", "arnold", "adam", "sam"}
       /\ \E k \in 1..Len(voices) : MarksMale(voices[k]))
        => \A i \in Calls :
             /\ pending[i].voice # <<>>
             /\ MarksFemale(pending[i].voice[1])
                  => ByNameFragment(pending[i].voice[1])

\* C21: isPlaying becomes true only in the step that handles the element's
\* play event; togglePlayPause leaves it as it was, and after a play() the
\* host rejected it is false.
C21_PlayingOnlyOnPlayEvent ==
  [][/\ (~isPlaying /\ isPlaying')
          => /\ audioElement.events # <<>>
             /\ Head(audioElement.events) = "play"
             /\ audioElement'.events = Tail(audioElement.events)
             /\ lastOp' = Op("play", "handled")
     /\ lastOp'.op = "togglePlayPause" => isPlaying' = isPlaying
     /\ lastOp' = Op("togglePlayPause", "rejected")
          => ~isPlaying' /\ audioElement' = audioElement]_vars

\* play() was rejected on a loaded element: no play event is queued and
\* isPlaying is false
C21_Witness ==
  /\ lastOp = Op("togglePlayPause", "rejected")
  /\ audioElement.ready
  /\ audioElement.paused
  /\ audioElement.events = <<>>
  /\ ~isPlaying

\* C22: every step that changes currentAudio leaves the element bound to the
\* new item's audioUrl, currentTime 0, isPlaying false and isLoading true;
\* isLoading goes from true to false only in the step where the element
\* reports loadeddata for the src it is bound to, the current item's.
C22_SelectionRebindsAndLoads ==
  [][/\ currentAudio' # currentAudio
          => /\ currentAudio' # <<>>
             /\ audioElement'.src = currentAudio'[1].audioUrl
             /\ ~audioElement'.ready
             /\ audioElement'.paused
             /\ currentTime' = 0
             /\ ~isPlaying'
             /\ isLoading'
     /\ (isLoading /\ ~isLoading')
          => /\ lastOp' = Op("loadeddata", "loaded")
             /\ currentAudio' = currentAudio
             /\ audioElement'.src = audioElement.src
             /\ audioElement'.src = currentAudio[1].audioUrl
             /\ audioElement'.ready]_vars

\* an older item was selected while the one before it had been played: the
\* player is loading its audioUrl from position 0
C22_Witness ==
  /\ lastOp = Op("onSelect", "selected")
  /\ Len(audioHistory) = 2
  /\ currentAudio = <<audioHistory[2]>>
  /\ audioElement.src = audioHistory[2].audioUrl
  /\ audioHistory[2].audioUrl # audioHistory[1].audioUrl
  /\ isLoading
  /\ ~audioElement.ready
  /\ currentTime = 0
  /\ ~isPlaying

C24_ControlsLeaveMirroredState ==
  [][lastOp'.op \in {"stop", "seek", "changeVolume", "changePlaybackRate"}
       => UNCHANGED <<isPlaying, currentTime, isLoading>>]_vars

C26_NoTimerAfterGeneration ==
  ~isGenerating => ~progressInterval

\* a generation has ended by appending its item, another by an alert, and
\* the timer is not armed
C26_Witness ==
  /\ ~isGenerating
  /\ ~progressInterval
  /\ produced # <<>>
  /\ alerts > 0
  /\ pending = <<>>

\* C27: the settings and the voice of an item are those of the voiceSettings
\* generateVoice was called with, which the call keeps while it is
\* suspended, and an item of the history keeps both in every later step,
\* whatever the voice selector and the sliders do meanwhile.
C27_SettingsSnapshotFrozen ==
  [][/\ lastOp' = Op("generateVoice", "started")
          => pending'[Len(pending')].settings = voiceSettings
     /\ (pending # <<>> /\ Len(pending') = Len(pending))
          => \A i \in Calls : pending'[i].settings = pending[i].settings
     /\ \A j \in 1..Len(audioHistory') :
          LET item == audioHistory'[j] IN
            IF InHistory(audioHistory, item.id)
            THEN \E i \in 1..Len(audioHistory) :
                   /\ audioHistory[i].id = item.id
                   /\ audioHistory[i].settings = item.settings
                   /\ audioHistory[i].voice = item.voice
            ELSE \E i \in Calls :
                   /\ pending[i].pc = "loading"
                   /\ item.settings = pending[i].settings
                   /\ item.voice = pending[i].settings.voice]_vars

\* the voice and the speed were changed while the call was suspended, and
\* the stability after the item before it was built
C27_Witness ==
  /\ lastOp = Op("loadedmetadata", "appended")
  /\ Len(audioHistory) = 2
  /\ audioHistory[1].settings.speed = 50
  /\ audioHistory[1].voice = "josh"
  /\ audioHistory[1].settings.voice = "josh"
  /\ voiceSettings.speed = 100
  /\ voiceSettings.voice = "rachel"
  /\ audioHistory[2].settings.stability = 75
  /\ voiceSettings.stability = 50

\* C28: changeVolume and changePlaybackRate change the volume and the rate
\* only: a player that is ready or playing is not put back to loading, the
\* element keeps the resource it has loaded, its position and whether it is
\* paused, and isPlaying and currentTime keep their values.  Stated for the
\* values the element takes, a volume within [0, 1] and a rate of 0 or more.
C28_VolumeAndRateLeavePlayback ==
  [][(/\ lastOp'.op \in {"changeVolume", "changePlaybackRate"}
      /\ lastOp'.out \in {"changed", "same"})
       => /\ UNCHANGED <<isLoading, isPlaying, currentTime, currentAudio>>
          /\ audioElement'.src = audioElement.src
          /\ audioElement'.ready = audioElement.ready
          /\ audioElement'.paused = audioElement.paused
          /\ audioElement'.currentTime = audioElement.currentTime
          /\ audioElement'.events = audioElement.events]_vars

\* C29: the object URL of every item of the history, and so of the item
\* selected and of every item offered for download, has not been revoked.
C29_HistoryHandlesLive ==
  /\ \A i \in 1..Len(audioHistory) : audioHistory[i].audioUrl \notin revoked
  /\ currentAudio # <<>> => currentAudio[1].audioUrl \notin revoked

\* C30: previewVoice leaves every suspended generateVoice call as it is: the
\* utterance the call is waiting for is not cancelled, so the call can still
\* end by appending its item, and the step itself changes neither
\* isGenerating nor the history.
C30_PreviewLeavesGeneration ==
  [][lastOp'.op = "previewVoice"
       => /\ pending' = pending
          /\ \A i \in 1..Len(pending') : pending'[i].pc # "cancelled"
          /\ UNCHANGED <<isGenerating, audioHistory, currentAudio, produced>>]_vars

====
